---------------------------- MODULE Spec2Model ----------------------------
(***************************************************************************)
(* Model of backend/app.py: the session registry (research_processes,      *)
(* research_results, research_logs), the worker thread research_worker,    *)
(* the HTTP handlers start_research and research_status, and the search    *)
(* tool EnhancedSearchTool.func with its cache, rate limiter and query     *)
(* budget.                                                                 *)
(*                                                                         *)
(* Threads interleave between statements that touch shared state (each     *)
(* dict store, list append or dict read is one step under the interpreter  *)
(* lock); statements that touch only thread-private state are merged into  *)
(* the neighbouring step.  Time is a monotonic clock counted in ticks,     *)
(* TicksPerSecond ticks to the second.  Strings that the code inspects     *)
(* (search queries) are sequences of characters; opaque strings (goals,    *)
(* keys, messages) are TLA+ strings.  Log entries omit the timestamp       *)
(* field, which no handler reads.                                          *)
(*                                                                         *)
(* research_logs maps a session id to a list object.  The only holder of   *)
(* a list besides research_logs is a status request between its            *)
(* research_logs.get and its jsonify: when research_logs[session_id] is    *)
(* rebound to a new list meanwhile, the request still holds the old list,  *)
(* which nobody can append to any more.  So research_logs is modelled as   *)
(* session id -> contents, and the request records whether the list it     *)
(* holds is still the bound one ("live") or a detached one ("stale", with  *)
(* its final contents).                                                    *)
(***************************************************************************)
EXTENDS Integers, Sequences, FiniteSets, TLC

(***************************************************************************)
(* Bounds of the exploration.                                              *)
(***************************************************************************)
\* calls of the search tool one crew.kickoff() makes at most
MaxToolSearches == 3
\* calls of the search tool one crew.kickoff() makes when two sessions run
MaxCrewSearches == 1
\* ticks after which the clock advances only for a sleeping thread
MaxTicks == 2

(***************************************************************************)
(* Program constants.                                                      *)
(***************************************************************************)
\* self.max_queries_per_session = 20
max_queries_per_session == 20
\* "current_time - self.last_query_time < 2"
MinInterval == 2
\* "len(results["arxiv"]) < 3"
MinArxivResults == 3
\* resolution of time.time(): ticks of the clock per second
TicksPerSecond == 2

\* The worker threads a run may start, in this order.
Workers == {"w1", "w2"}
Earlier(w) == IF w = "w2" THEN {"w1"} ELSE {}

\* Python's None where a string is expected, and where a structured value is
None == "None"
Null == <<>>

(***************************************************************************)
(* Strings the code inspects: sequences over a small alphabet.             *)
(***************************************************************************)
Queries == { <<"a">>, <<"A", " ">>, <<"b">> }

\* str.lower on one character
LowerChar(c) == CASE c = "A" -> "a"
                  [] c = "B" -> "b"
                  [] OTHER -> c

\* str.lower
Lower(s) == [i \in 1..Len(s) |-> LowerChar(s[i])]

IsSpace(c) == c = " "

RECURSIVE LStrip(_)
LStrip(s) == IF s # <<>> /\ IsSpace(Head(s)) THEN LStrip(Tail(s)) ELSE s

RECURSIVE RStrip(_)
RStrip(s) == IF s # <<>> /\ IsSpace(s[Len(s)])
             THEN RStrip(SubSeq(s, 1, Len(s) - 1)) ELSE s

\* str.strip
Strip(s) == RStrip(LStrip(s))

\* a cache key that is the text as passed
CacheKeyRaw(query) == query

\* a cache key that is lower-cased but keeps the surrounding blanks
CacheKeyUnstripped(query) == Lower(query)

\* cache_key = query.lower().strip()
CacheKey(query) == Strip(Lower(query))

\* the normalized text of a query: trimmed and lower-cased
Normalize(query) == Lower(LStrip(RStrip(query)))

Keys == { Normalize(q) : q \in Queries }

(***************************************************************************)
(* Time.                                                                   *)
(***************************************************************************)
\* int(time.time())
IntTime(t) == t \div TicksPerSecond

\* session_id = f"research_{int(time.time())}"
SessionId(t) == <<"research_", IntTime(t)>>

\* The process starts long after the epoch: the first clock reading is at
\* least MinInterval seconds after time 0.
T0 == MinInterval * TicksPerSecond

(***************************************************************************)
(* Requests.                                                               *)
(***************************************************************************)
\* the JSON bodies posted to /api/start_research; a missing field is None
Requests ==
    { [research_goal |-> None, openai_api_key |-> "k1", serpapi_key |-> None],
      [research_goal |-> "g1", openai_api_key |-> "", serpapi_key |-> None],
      [research_goal |-> "g1", openai_api_key |-> "k1", serpapi_key |-> None],
      [research_goal |-> "g2", openai_api_key |-> "k2",
       serpapi_key |-> "serp"] }

\* Python truthiness of a request field
\* a check that accepts the empty string
TruthyButEmpty(v) == v # None

Truthy(v) == v # None /\ v # ""

VARIABLES
    clock,               \* time.time(), in ticks
    research_processes,  \* dict session_id -> status
    research_results,    \* dict session_id -> result or {"error": msg}
    research_logs,       \* dict session_id -> list of log entries
    environ,             \* os.environ['OPENAI_API_KEY']
    worker,              \* the threads running research_worker
    tool,                \* each worker's EnhancedSearchTool instance
    poll,                \* the thread serving research_status
    starter,             \* a thread serving start_research
    hist                 \* history: what each worker has written and called

vars == <<clock, research_processes, research_results, research_logs,
          environ, worker, tool, poll, starter, hist>>

(***************************************************************************)
(* Values.                                                                 *)
(***************************************************************************)
\* the dict {}
EmptyDict == <<>>

Has(d, k) == k \in DOMAIN d

\* d[k] = v
Store(d, k, v) == [x \in DOMAIN d \cup {k} |-> IF x = k THEN v ELSE d[x]]

\* d.get(k, default)
Get(d, k, default) == IF Has(d, k) THEN d[k] ELSE default

\* one entry of a session's log (log_activity, and func's "Searching" entry)
LogEntry(agent, action, result) ==
    [agent |-> agent, action |-> action, result |-> result]

\* results = {"arxiv": [], "web": []}
EmptyBundle == [arxiv |-> <<>>, web |-> <<>>]

\* return {"error": "Query limit reached", "results": {"arxiv": [], "web": []}}
LimitSentinel == [error |-> "Query limit reached", results |-> EmptyBundle]

\* what a provider answers: it raises, or yields n records
Raises == [raises |-> TRUE, n |-> 0]
Yields(n) == [raises |-> FALSE, n |-> n]
NoOutcome == [raises |-> FALSE, n |-> -1]

ArxivOutcomes == {Raises, Yields(1), Yields(3)}
ArxivList(query, n) == [i \in 1..n |-> [title |-> <<"paper", query, i>>]]

WebOutcomes == {Raises, Yields(1)}
WebList(query, n) == [i \in 1..n |-> [link |-> <<"page", query, i>>]]

\* error_msg = f"Error in research process: {str(e)}"
ErrorMsg(e) == <<"Error in research process: ">> \o e

\* what the external runtime returns from crew.kickoff(): an opaque payload
CrewResult(goal) == [output |-> <<"result", goal>>]

(***************************************************************************)
(* EnhancedSearchTool.                                                     *)
(***************************************************************************)
\* api_keys = {}; if serpapi_key: api_keys["serpapi"] = serpapi_key
ApiKeys(serpapi_key) ==
    IF Truthy(serpapi_key) THEN Store(EmptyDict, "serpapi", serpapi_key)
    ELSE EmptyDict

\* one tool pooled for all scientists
ToolOfPooled(w) == "w1"

\* "self.search_tool = EnhancedSearchTool(api_keys)": the tool a worker's
\* scientist uses is the one it constructed itself
ToolOf(w) == w

\* EnhancedSearchTool.__init__, and "self.search_tool.session_id = session_id"
NewTool(api_keys, session_id) ==
    [api_keys |-> api_keys, cache |-> EmptyDict, last_query_time |-> 0,
     query_count |-> 0, session_id |-> session_id]

\* no tool: none constructed yet, or the worker has ended and its tool is freed
NoTool == [api_keys |-> EmptyDict, cache |-> EmptyDict, last_query_time |-> 0,
           query_count |-> 0, session_id |-> Null]

(***************************************************************************)
(* Threads.                                                                *)
(***************************************************************************)
\* a worker thread not started; query, results, wake and ret are the locals
\* and the return value of the func call in progress
IdleWorker ==
    [pc |-> "idle", session_id |-> Null, research_goal |-> None,
     openai_api_key |-> None, serpapi_key |-> None, left |-> 0,
     query |-> <<>>, results |-> EmptyBundle, wake |-> 0, ret |-> Null,
     exc |-> <<>>]

\* the thread serving research_status, between requests; held and old
\* describe the list its local "logs" refers to
IdlePoll == [pc |-> "idle", session_id |-> Null, held |-> "none",
             old |-> <<>>, process_status |-> None, result |-> Null]

\* research_logs[session_id] = []: a new list is bound; a request holding the
\* list bound so far keeps it, detached
Rebind(logs, session_id) == Store(logs, session_id, <<>>)
Detach(p, logs, session_id) ==
    IF p.held = "live" /\ p.session_id = session_id
    THEN [p EXCEPT !.held = "stale", !.old = logs[session_id]]
    ELSE p

\* What a worker has done so far: terminal status writes; func calls that
\* missed the cache; calls that reached the arXiv provider; per normalized
\* text the provider calls and the bundle its first completed search
\* returned; for the latest call whether it hit the cache and how each
\* provider answered.
NoHist == [termWrites |-> 0, misses |-> 0, outbound |-> 0,
           arxivCalls |-> [k \in Keys |-> 0], webCalls |-> [k \in Keys |-> 0],
           first |-> [k \in Keys |-> Null],
           arxivOut |-> NoOutcome, webOut |-> NoOutcome, hit |-> FALSE]

Init ==
    /\ clock = T0
    /\ research_processes = EmptyDict
    /\ research_results = EmptyDict
    /\ research_logs = EmptyDict
    /\ environ = None
    /\ worker = [w \in Workers |-> IdleWorker]
    /\ tool = [w \in Workers |-> NoTool]
    /\ poll = IdlePoll
    /\ starter = "idle"
    /\ hist = [w \in Workers |-> NoHist]

(***************************************************************************)
(* start_research.                                                         *)
(***************************************************************************)
\* "if not data.get('research_goal')", "if not data.get('openai_api_key')":
\* the request is about to be answered 400
StartInvalid(data) ==
    /\ starter = "idle"
    /\ ~Truthy(data.research_goal) \/ ~Truthy(data.openai_api_key)
    /\ starter' = "reject"
    /\ UNCHANGED <<clock, research_processes, research_results, research_logs,
                   environ, worker, tool, poll, hist>>

\* return jsonify({"status": "error", ...}), 400
StartRejected ==
    /\ starter = "reject"
    /\ starter' = "idle"
    /\ UNCHANGED <<clock, research_processes, research_results, research_logs,
                   environ, worker, tool, poll, hist>>

\* session id from the clock, research_logs[session_id] = [], thread.start();
\* the answer is 200 with worker[w].session_id
StartAccepted(w, data) ==
    /\ Truthy(data.research_goal) /\ Truthy(data.openai_api_key)
    /\ worker[w].pc = "idle"
    /\ \A v \in Earlier(w) : worker[v].pc # "idle"
    /\ LET session_id == SessionId(clock)
       IN /\ research_logs' = Rebind(research_logs, session_id)
          /\ poll' = Detach(poll, research_logs, session_id)
          /\ worker' = [worker EXCEPT ![w] =
                 [IdleWorker EXCEPT !.pc = "start", !.session_id = session_id,
                      !.research_goal = data.research_goal,
                      !.openai_api_key = data.openai_api_key,
                      !.serpapi_key = data.serpapi_key,
                      !.left = MaxToolSearches]]
    /\ UNCHANGED <<clock, research_processes, research_results, environ, tool,
                   starter, hist>>

StartResearch ==
    \/ \E data \in Requests :
           \/ StartInvalid(data)
           \/ \E w \in Workers : StartAccepted(w, data)
    \/ StartRejected

(***************************************************************************)
(* research_worker, EnhancedAICoScientist.                                 *)
(***************************************************************************)
\* research_logs[session_id].append(entry), guarded by "session_id in
\* research_logs"
AppendLog(logs, session_id, entry) ==
    IF Has(logs, session_id)
    THEN [logs EXCEPT ![session_id] = Append(@, entry)]
    ELSE logs

\* a worker whose try statement does not cover the failing statement
OnRaiseEscapes == "escaped"

\* where control goes when the code between "try:" and "except Exception"
\* raises: into the handler
OnRaise == "except"

\* research_processes[session_id] = "running"
WorkerRunning(w) ==
    /\ worker[w].pc = "start"
    /\ research_processes' =
           Store(research_processes, worker[w].session_id, "running")
    /\ worker' = [worker EXCEPT ![w].pc = "init_env"]
    /\ UNCHANGED <<clock, research_results, research_logs, environ, tool,
                   poll, starter, hist>>

\* EnhancedAICoScientist.__init__: os.environ['OPENAI_API_KEY'] = openai_api_key
ScientistEnv(w) ==
    /\ worker[w].pc = "init_env"
    /\ environ' = worker[w].openai_api_key
    /\ worker' = [worker EXCEPT ![w].pc = "init_logs"]
    /\ UNCHANGED <<clock, research_processes, research_results, research_logs,
                   tool, poll, starter, hist>>

\* EnhancedAICoScientist.__init__: the tool, then research_logs[session_id] = []
ScientistLogs(w) ==
    /\ worker[w].pc = "init_logs"
    /\ LET session_id == worker[w].session_id
       IN /\ tool' = [tool EXCEPT ![ToolOf(w)] =
                 NewTool(ApiKeys(worker[w].serpapi_key), session_id)]
          /\ research_logs' = Rebind(research_logs, session_id)
          /\ poll' = Detach(poll, research_logs, session_id)
    /\ worker' = [worker EXCEPT ![w].pc = "build"]
    /\ UNCHANGED <<clock, research_processes, research_results, environ,
                   starter, hist>>

\* self.log_activity("Supervisor", action, result), then on to pc
LogActivity(w, action, result, pc) ==
    /\ research_logs' = AppendLog(research_logs, worker[w].session_id,
                                  LogEntry("Supervisor", action, result))
    /\ worker' = [worker EXCEPT ![w].pc = pc, ![w].query = <<>>,
                                ![w].ret = Null,
                                ![w].exc = IF pc = OnRaise THEN result ELSE @]
    /\ UNCHANGED <<clock, research_processes, research_results, environ, tool,
                   poll, starter>>

\* run_research_process: the runtime constructs the agents, the tasks and the
\* Crew; then log_activity("Supervisor", "Process Started", ...)
BuildCrew(w) ==
    /\ worker[w].pc = "build"
    /\ LogActivity(w, "Process Started", <<"Goal: ", worker[w].research_goal>>,
                   "kickoff")
    /\ UNCHANGED hist

\* run_research_process: the runtime raises while constructing them
BuildRaise(w) ==
    /\ worker[w].pc = "build"
    /\ worker' = [worker EXCEPT ![w].pc = OnRaise,
                                ![w].exc = <<"crew construction failed">>]
    /\ UNCHANGED <<clock, research_processes, research_results, research_logs,
                   environ, tool, poll, starter, hist>>

\* the history of the latest func call ends with the kickoff
EndCalls(h) == [h EXCEPT !.arxivOut = NoOutcome, !.webOut = NoOutcome,
                         !.hit = FALSE]

\* crew.kickoff() returns: log_activity("Supervisor", "Process Completed", ...)
KickoffReturn(w) ==
    /\ worker[w].pc = "kickoff"
    /\ LogActivity(w, "Process Completed", <<"Research results generated">>,
                   "store_result")
    /\ hist' = [hist EXCEPT ![w] = EndCalls(@)]

\* crew.kickoff() raises: log_activity("Supervisor", "Process Error",
\* error_msg); raise Exception(error_msg)
KickoffRaise(w) ==
    /\ worker[w].pc = "kickoff"
    /\ LogActivity(w, "Process Error", ErrorMsg(<<"runtime failed">>), OnRaise)
    /\ hist' = [hist EXCEPT ![w] = EndCalls(@)]

\* research_results[session_id] = result
StoreResult(w) ==
    /\ worker[w].pc = "store_result"
    /\ research_results' = Store(research_results, worker[w].session_id,
                                 CrewResult(worker[w].research_goal))
    /\ worker' = [worker EXCEPT ![w].pc = "set_completed"]
    /\ UNCHANGED <<clock, research_processes, research_logs, environ,
                   tool, poll, starter, hist>>

\* except Exception as e: research_results[session_id] = {"error": error_msg}
StoreError(w) ==
    /\ worker[w].pc = "except"
    /\ research_results' = Store(research_results, worker[w].session_id,
                                 [error |-> ErrorMsg(worker[w].exc)])
    /\ worker' = [worker EXCEPT ![w].pc = "set_error"]
    /\ UNCHANGED <<clock, research_processes, research_logs, environ,
                   tool, poll, starter, hist>>

\* the last statement of either branch: research_processes[session_id] =
\* status; the thread ends, and its scientist and tool are freed
SetTerminal(w, status) ==
    /\ research_processes' =
           Store(research_processes, worker[w].session_id, status)
    /\ worker' = [worker EXCEPT ![w].pc = "done", ![w].exc = <<>>]
    /\ tool' = [tool EXCEPT ![ToolOf(w)] = NoTool]
    /\ hist' = [hist EXCEPT ![w] =
                    [NoHist EXCEPT !.termWrites = hist[w].termWrites + 1]]
    /\ UNCHANGED <<clock, research_results, research_logs, environ,
                   poll, starter>>

\* research_processes[session_id] = "completed"
SetCompleted(w) ==
    /\ worker[w].pc = "set_completed"
    /\ SetTerminal(w, "completed")

\* research_processes[session_id] = "error"
SetError(w) ==
    /\ worker[w].pc = "set_error"
    /\ SetTerminal(w, "error")

(***************************************************************************)
(* EnhancedSearchTool.func, called by the runtime inside crew.kickoff().    *)
(***************************************************************************)
\* "if cache_key in self.cache"
CacheHit(t, cache_key) == Has(t.cache, cache_key)

\* a sleep that takes the remainder in ticks for seconds
SleepForShort(t, current_time) ==
    IF current_time - t.last_query_time < MinInterval * TicksPerSecond
    THEN MinInterval - (current_time - t.last_query_time)
    ELSE 0

\* the argument of time.sleep: 2 - (current_time - self.last_query_time) when
\* current_time - self.last_query_time < 2, and no sleep otherwise
SleepFor(t, current_time) ==
    IF current_time - t.last_query_time < MinInterval * TicksPerSecond
    THEN MinInterval * TicksPerSecond - (current_time - t.last_query_time)
    ELSE 0

\* a budget check that lets one call too many through
OverBudgetLate(t) == t.query_count > max_queries_per_session + 1

\* "if self.query_count > self.max_queries_per_session"
OverBudget(t) == t.query_count > max_queries_per_session

\* a condition that forgets the key
WantsWebKeyless(t, results) == Len(results.arxiv) < MinArxivResults

\* "len(results["arxiv"]) < 3 and "serpapi" in self.api_keys and
\* self.api_keys["serpapi"]"
WantsWeb(t, results) ==
    /\ Len(results.arxiv) < MinArxivResults
    /\ Has(t.api_keys, "serpapi")
    /\ Truthy(t.api_keys["serpapi"])

\* results["arxiv"] after the try/except around the arXiv search
ArxivResults(query, outcome) ==
    IF outcome.raises THEN <<>> ELSE ArxivList(query, outcome.n)

\* results["web"] after the try/except around the web search
WebResults(query, outcome) ==
    IF outcome.raises THEN <<>> ELSE WebList(query, outcome.n)

\* a func without the try/except: the failure leaves func
AfterRaisePropagates(next) == "raised"

\* where func continues when a provider raises: "except Exception as e"
\* logs the error and func goes on with the statement after the try
AfterRaise(next) == next

\* the runtime calls func(query): the "Searching" entry is appended
KickoffSearch(w, query) ==
    /\ worker[w].pc = "kickoff"
    /\ worker[w].left > 0
    /\ research_logs' = AppendLog(research_logs, tool[ToolOf(w)].session_id,
                                  LogEntry("Search Tool", "Searching",
                                           <<"Query: ", query>>))
    /\ worker' = [worker EXCEPT ![w].pc = "s_cache", ![w].query = query,
                                ![w].ret = Null, ![w].left = @ - 1]
    /\ hist' = [hist EXCEPT ![w] = EndCalls(@)]
    /\ UNCHANGED <<clock, research_processes, research_results, environ, tool,
                   poll, starter>>

\* the cache check; on a miss the clock is read and the thread sleeps
SearchLookup(w) ==
    /\ worker[w].pc = "s_cache"
    /\ LET cache_key == CacheKey(worker[w].query)
       IN IF CacheHit(tool[ToolOf(w)], cache_key)
          THEN /\ worker' = [worker EXCEPT ![w].pc = "kickoff",
                                 ![w].ret = tool[ToolOf(w)].cache[cache_key]]
               /\ hist' = [hist EXCEPT ![w].hit = TRUE]
          ELSE /\ worker' = [worker EXCEPT ![w].pc = "s_wait",
                                 ![w].wake =
                                     clock + SleepFor(tool[ToolOf(w)], clock)]
               /\ hist' = [hist EXCEPT ![w].misses = @ + 1]
    /\ UNCHANGED <<clock, research_processes, research_results, research_logs,
                   environ, tool, poll, starter>>

\* after the sleep: the count, and the budget check
SearchCount(w) ==
    /\ worker[w].pc = "s_wait"
    /\ clock >= worker[w].wake
    /\ LET t == [tool[ToolOf(w)] EXCEPT !.query_count = @ + 1]
       IN /\ tool' = [tool EXCEPT ![ToolOf(w)] = t]
          /\ worker' = [worker EXCEPT
                 ![w].pc = IF OverBudget(t) THEN "kickoff" ELSE "s_arxiv",
                 ![w].ret = IF OverBudget(t) THEN LimitSentinel ELSE @,
                 ![w].wake = 0,
                 ![w].results = EmptyBundle]
    /\ UNCHANGED <<clock, research_processes, research_results, research_logs,
                   environ, poll, starter, hist>>

\* the arXiv search, inside its try/except
SearchArxiv(w, outcome) ==
    /\ worker[w].pc = "s_arxiv"
    /\ LET query == worker[w].query
           results == [worker[w].results EXCEPT
                           !.arxiv = ArxivResults(query, outcome)]
           next == IF WantsWeb(tool[ToolOf(w)], results) THEN "s_web"
                   ELSE "s_store"
       IN worker' = [worker EXCEPT
              ![w].results = results,
              ![w].pc = IF outcome.raises THEN AfterRaise(next) ELSE next]
    /\ hist' = [hist EXCEPT
           ![w].outbound = @ + 1,
           ![w].arxivCalls[Normalize(worker[w].query)] = @ + 1,
           ![w].arxivOut = outcome]
    /\ UNCHANGED <<clock, research_processes, research_results, research_logs,
                   environ, tool, poll, starter>>

\* the web search, inside its try/except
SearchWeb(w, outcome) ==
    /\ worker[w].pc = "s_web"
    /\ worker' = [worker EXCEPT
           ![w].results.web = WebResults(worker[w].query, outcome),
           ![w].pc = IF outcome.raises THEN AfterRaise("s_store")
                     ELSE "s_store"]
    /\ hist' = [hist EXCEPT
           ![w].webCalls[Normalize(worker[w].query)] = @ + 1,
           ![w].webOut = outcome]
    /\ UNCHANGED <<clock, research_processes, research_results, research_logs,
                   environ, tool, poll, starter>>

\* self.cache[cache_key] = results; self.last_query_time = time.time();
\* return results
SearchStore(w) ==
    /\ worker[w].pc = "s_store"
    /\ LET cache_key == CacheKey(worker[w].query)
           k == Normalize(worker[w].query)
       IN /\ tool' = [tool EXCEPT
                 ![ToolOf(w)].cache = Store(@, cache_key, worker[w].results),
                 ![ToolOf(w)].last_query_time = clock]
          /\ hist' = [hist EXCEPT ![w].first[k] =
                 IF @ = Null THEN [bundle |-> worker[w].results] ELSE @]
    /\ worker' = [worker EXCEPT ![w].pc = "kickoff",
                                ![w].ret = worker[w].results,
                                ![w].results = EmptyBundle]
    /\ UNCHANGED <<clock, research_processes, research_results, research_logs,
                   environ, poll, starter>>

(***************************************************************************)
(* research_status.                                                        *)
(***************************************************************************)
\* the ids a client may ask for: those the clock can yield
SessionIds == { SessionId(t) : t \in T0..(T0 + MaxTicks) }

\* "if session_id not in research_processes": the request is about to be
\* answered 404
PollUnknown(session_id) ==
    /\ poll.pc = "idle"
    /\ ~Has(research_processes, session_id)
    /\ poll' = [IdlePoll EXCEPT !.pc = "notfound", !.session_id = session_id]
    /\ UNCHANGED <<clock, research_processes, research_results, research_logs,
                   environ, worker, tool, starter, hist>>

\* return jsonify({"status": "error", "message": "Session not found"}), 404
PollNotFound ==
    /\ poll.pc = "notfound"
    /\ poll' = IdlePoll
    /\ UNCHANGED <<clock, research_processes, research_results, research_logs,
                   environ, worker, tool, starter, hist>>

\* otherwise: logs = research_logs.get(session_id, [])
PollLogs(session_id) ==
    /\ poll.pc = "idle"
    /\ Has(research_processes, session_id)
    /\ poll' = [IdlePoll EXCEPT !.pc = "status", !.session_id = session_id,
                    !.held = IF Has(research_logs, session_id) THEN "live"
                             ELSE "none"]
    /\ UNCHANGED <<clock, research_processes, research_results, research_logs,
                   environ, worker, tool, starter, hist>>

\* process_status = research_processes.get(session_id, "unknown")
PollStatus ==
    /\ poll.pc = "status"
    /\ LET process_status == Get(research_processes, poll.session_id, "unknown")
       IN poll' = [poll EXCEPT
              !.process_status = process_status,
              !.pc = IF process_status = "completed" THEN "result" ELSE "reply"]
    /\ UNCHANGED <<clock, research_processes, research_results, research_logs,
                   environ, worker, tool, starter, hist>>

\* result = research_results.get(session_id)
PollResult ==
    /\ poll.pc = "result"
    /\ poll' = [poll EXCEPT !.pc = "reply",
                    !.result = Get(research_results, poll.session_id, Null)]
    /\ UNCHANGED <<clock, research_processes, research_results, research_logs,
                   environ, worker, tool, starter, hist>>

\* the list the request's local "logs" refers to, as jsonify reads it
HeldLogs(p, logs) ==
    CASE p.held = "live" -> logs[p.session_id]
      [] p.held = "stale" -> p.old
      [] OTHER -> <<>>

\* the answer of a poll about to reply: jsonify({"status": "success",
\* "process_status": process_status, "logs": logs, "result": result})
Response(p, logs) ==
    [code |-> 200, process_status |-> p.process_status,
     logs |-> HeldLogs(p, logs), result |-> p.result]

\* return jsonify(...): Response(poll, research_logs) is sent
PollReply ==
    /\ poll.pc = "reply"
    /\ poll' = IdlePoll
    /\ UNCHANGED <<clock, research_processes, research_results, research_logs,
                   environ, worker, tool, starter, hist>>

(***************************************************************************)
(* The clock.                                                              *)
(***************************************************************************)
Sleeping == \E w \in Workers : worker[w].pc = "s_wait" /\ worker[w].wake > clock

\* time passes: freely up to a limit, and beyond it while a thread sleeps
TickTo(limit) ==
    /\ clock < limit \/ Sleeping
    /\ clock' = clock + 1
    /\ UNCHANGED <<research_processes, research_results, research_logs,
                   environ, worker, tool, poll, starter, hist>>

\* Under Spec only start_research reads the clock: time passes while a
\* start request may still come.
Tick ==
    /\ \E w \in Workers : worker[w].pc = "idle"
    /\ TickTo(T0 + MaxTicks)

(***************************************************************************)
(* The system.                                                             *)
(***************************************************************************)
WorkerStep(w) ==
    \/ WorkerRunning(w) \/ ScientistEnv(w) \/ ScientistLogs(w)
    \/ BuildCrew(w) \/ BuildRaise(w) \/ KickoffReturn(w) \/ KickoffRaise(w)
    \/ StoreResult(w) \/ SetCompleted(w) \/ StoreError(w) \/ SetError(w)

\* the func calls of a kickoff, for the queries the runtime may pass
SearchStep(w, queries) ==
    \/ \E query \in queries : KickoffSearch(w, query)
    \/ SearchLookup(w) \/ SearchCount(w)
    \/ \E outcome \in ArxivOutcomes : SearchArxiv(w, outcome)
    \/ \E outcome \in WebOutcomes : SearchWeb(w, outcome)
    \/ SearchStore(w)

PollStep ==
    \/ \E session_id \in SessionIds :
           PollUnknown(session_id) \/ PollLogs(session_id)
    \/ PollNotFound \/ PollStatus \/ PollResult \/ PollReply

Next ==
    \/ StartResearch
    \/ \E w \in Workers : WorkerStep(w)
    \/ PollStep
    \/ Tick

Spec == Init /\ [][Next]_vars

(***************************************************************************)
(* The start requests and the worker threads under fair scheduling: a      *)
(* thread that can take a step eventually takes one, and crew.kickoff()    *)
(* returns or raises.  Status requests only read, and are left out.        *)
(***************************************************************************)
FairNext ==
    \/ StartResearch
    \/ \E w \in Workers : WorkerStep(w)
    \/ Tick

FairSpec ==
    /\ Init
    /\ [][FairNext]_vars
    /\ \A w \in Workers : WF_vars(WorkerStep(w))

(***************************************************************************)
(* One search tool in use: a worker inside crew.kickoff(), whose runtime   *)
(* calls func with any of Queries.  The run starts either with the tool    *)
(* as constructed or with the tool as it is after n earlier searches of    *)
(* n distinct texts "z", "zz", ... that each found papers.                 *)
(***************************************************************************)
\* the text "zz...z" of length i
Filler(i) == [j \in 1..i |-> "z"]

FillerBundle(i) == [arxiv |-> ArxivList(Filler(i), MinArxivResults),
                    web |-> <<>>]

\* the numbers of earlier searches a run may start after
PrewarmCounts == {0, max_queries_per_session - 1}

\* the clock when the run starts: late enough for that many searches
SearchT0 == T0 + max_queries_per_session * MinInterval * TicksPerSecond

\* the tool after n earlier searches, the last one completed at time t
UsedTool(api_keys, session_id, n, t) ==
    [NewTool(api_keys, session_id) EXCEPT
        !.cache = [k \in { Filler(i) : i \in 1..n } |-> FillerBundle(Len(k))],
        !.query_count = n,
        !.last_query_time = IF n = 0 THEN 0 ELSE t]

\* the session's log by then
UsedLog(goal, n) ==
    <<LogEntry("Supervisor", "Process Started", <<"Goal: ", goal>>)>> \o
    [i \in 1..n |-> LogEntry("Search Tool", "Searching",
                             <<"Query: ", Filler(i)>>)]

SearchInit ==
    \E n \in PrewarmCounts, data \in Requests :
        /\ Truthy(data.research_goal) /\ Truthy(data.openai_api_key)
        /\ LET session_id == SessionId(T0)
           IN /\ clock = SearchT0
              /\ research_processes = Store(EmptyDict, session_id, "running")
              /\ research_results = EmptyDict
              /\ research_logs =
                     Store(EmptyDict, session_id, UsedLog(data.research_goal, n))
              /\ environ = data.openai_api_key
              /\ worker = [w \in Workers |->
                     IF w = "w1"
                     THEN [IdleWorker EXCEPT !.pc = "kickoff",
                              !.session_id = session_id,
                              !.research_goal = data.research_goal,
                              !.openai_api_key = data.openai_api_key,
                              !.serpapi_key = data.serpapi_key,
                              !.left = MaxToolSearches]
                     ELSE IdleWorker]
              /\ tool = [w \in Workers |->
                     IF w = "w1"
                     THEN UsedTool(ApiKeys(data.serpapi_key), session_id, n,
                                   SearchT0)
                     ELSE NoTool]
              /\ poll = IdlePoll
              /\ starter = "idle"
              /\ hist = [w \in Workers |->
                     IF w = "w1"
                     THEN [NoHist EXCEPT !.misses = n, !.outbound = n]
                     ELSE NoHist]

SearchTick == TickTo(SearchT0 + MaxTicks)

SearchNext ==
    \/ SearchStep("w1", Queries)
    \/ SearchTick

SearchSpec == SearchInit /\ [][SearchNext]_vars

(***************************************************************************)
(* Two sessions running: both start requests have been accepted, in the    *)
(* same second or one second apart, and their workers run, each runtime    *)
(* calling func, while status requests are served.                         *)
(***************************************************************************)
\* the accepted requests
ValidRequests ==
    { data \in Requests :
          Truthy(data.research_goal) /\ Truthy(data.openai_api_key) }

\* the queries the runtimes pass: one text, so that no call of func has to
\* sleep and the clock is left alone
CrewQueries == { <<"a">> }

\* the time of the second start request
CrewT0(gap) == T0 + gap

\* the worker thread as thread.start() leaves it
StartedWorker(session_id, data, left) ==
    [IdleWorker EXCEPT !.pc = "start", !.session_id = session_id,
         !.research_goal = data.research_goal,
         !.openai_api_key = data.openai_api_key,
         !.serpapi_key = data.serpapi_key,
         !.left = left]

CrewInit ==
    \E gap \in {0, TicksPerSecond}, data1 \in ValidRequests,
       data2 \in ValidRequests :
        /\ data1 # data2
        /\ clock = CrewT0(gap)
        /\ research_processes = EmptyDict
        /\ research_results = EmptyDict
        /\ research_logs = Rebind(Rebind(EmptyDict, SessionId(T0)),
                                  SessionId(CrewT0(gap)))
        /\ environ = None
        /\ worker = [w \in Workers |->
               IF w = "w1"
               THEN StartedWorker(SessionId(T0), data1, MaxCrewSearches)
               ELSE StartedWorker(SessionId(CrewT0(gap)), data2,
                                  MaxCrewSearches)]
        /\ tool = [w \in Workers |-> NoTool]
        /\ poll = IdlePoll
        /\ starter = "idle"
        /\ hist = [w \in Workers |-> NoHist]

\* the func calls of a kickoff; each provider finds one record
CrewSearchStep(w) ==
    \/ \E query \in CrewQueries : KickoffSearch(w, query)
    \/ SearchLookup(w) \/ SearchCount(w)
    \/ SearchArxiv(w, Yields(1)) \/ SearchWeb(w, Yields(1))
    \/ SearchStore(w)


CrewNext ==
    \/ \E w \in Workers : WorkerStep(w)
    \/ \E w \in Workers : CrewSearchStep(w)
    \/ PollStep

CrewSpec == CrewInit /\ [][CrewNext]_vars

(***************************************************************************)
(* Properties of the session registry.                                     *)
(***************************************************************************)
Terminal == {"completed", "error"}

\* the workers started so far, and the session ids their requests returned
Started == { w \in Workers : worker[w].pc # "idle" }
Accepted == { worker[w].session_id : w \in Started }

\* the status of a session id as the registry holds it; an accepted session
\* with no entry yet is pending
StatusOf(procs, session_id) == Get(procs, session_id, "pending")

StatusRank(status) == CASE status = "pending" -> 0
                        [] status = "running" -> 1
                        [] OTHER -> 2

\* a payload of research_results that is the {"error": msg} dict
IsError(v) == "error" \in DOMAIN v

\* C1: the status of a session id moves only along pending -> running ->
\* {completed | error}: it never moves back, and once completed or error it
\* never changes again.
C1_StatusForwardOnly ==
    [][\A session_id \in Accepted :
          LET old == StatusOf(research_processes, session_id)
              new == StatusOf(research_processes', session_id)
          IN /\ StatusRank(new) >= StatusRank(old)
             /\ old \in Terminal => new = old]_vars

\* C2: a completed session has a result stored and no error message, a
\* session in status error has an error message stored and no result.
C2_TerminalPayload ==
    \A session_id \in DOMAIN research_processes :
        /\ research_processes[session_id] = "completed" =>
               /\ Has(research_results, session_id)
               /\ ~IsError(research_results[session_id])
        /\ research_processes[session_id] = "error" =>
               /\ Has(research_results, session_id)
               /\ IsError(research_results[session_id])

C4_AcceptedNeverNotFound ==
    /\ ~(poll.pc = "notfound" /\ poll.session_id \in Accepted)
    /\ (poll.pc = "reply" /\ poll.process_status \notin Terminal) =>
           /\ poll.process_status \in {"pending", "running"}
           /\ poll.result = Null

\* the answer a status poll sends carries the session's error message: as its
\* result, or in an entry of its logs
CarriesError(response) ==
    \/ IsError(response.result)
    \/ \E i \in 1..Len(response.logs) :
           response.logs[i].action = "Process Error"

\* C5: a status poll that reports process_status error also returns the
\* session's error message.
C5_ErrorMessagePolled ==
    [][(poll.pc = "reply" /\ poll'.pc = "idle"
            /\ poll.process_status = "error")
           => CarriesError(Response(poll, research_logs))]_vars

\* the orchestrator of a worker exists, or its runtime executes
Orchestrating(w) ==
    worker[w].pc \in {"init_logs", "build", "kickoff", "s_cache", "s_wait",
                      "s_arxiv", "s_web", "s_store"}

\* C6: while the orchestrator and the runtime of a session execute, the
\* primary credential in effect is the key of that session's start request,
\* whatever the workers of other sessions do.
C6_OwnCredential ==
    \A a \in Workers :
        (/\ Orchestrating(a)
         /\ \A b \in Workers \ {a} :
                worker[b].session_id # worker[a].session_id)
        => environ = worker[a].openai_api_key

(***************************************************************************)
(* Properties of EnhancedSearchTool.func.                                  *)
(***************************************************************************)
\* the worker has a search tool
HasTool(w) == tool[w].session_id # Null

SearchPcs == {"s_cache", "s_wait", "s_arxiv", "s_web", "s_store"}

\* the text the worker searches was searched before, within budget, and its
\* bundle stored
Repeated(w) == hist[w].first[Normalize(worker[w].query)] # Null

\* func has returned from its latest call
Returned(w) == worker[w].pc = "kickoff" /\ worker[w].ret # Null

\* C7: a search whose normalized text (trimmed, lower-cased) was searched
\* before within budget returns the bundle of that first search with no
\* outbound call, no wait, no change of query_count or last_query_time, so
\* that outbound search is attempted once per normalized text; the only
\* effect of the call is its 'Searching' entry in the session's log.
C7_CacheHit ==
    /\ [](\A w \in Workers : \A k \in Keys :
              hist[w].arxivCalls[k] <= 1 /\ hist[w].webCalls[k] <= 1)
    /\ [][\A w \in Workers :
            (worker[w].pc = "s_cache" /\ Repeated(w)
                 /\ worker'[w] # worker[w]) =>
                /\ worker'[w].pc = "kickoff"
                /\ worker'[w].ret =
                       hist[w].first[Normalize(worker[w].query)].bundle
                /\ tool'[w] = tool[w]
                /\ hist'[w].outbound = hist[w].outbound
                /\ hist'[w].misses = hist[w].misses
                /\ UNCHANGED <<clock, research_processes, research_results,
                               research_logs, environ>>]_vars
    /\ [][\A w \in Workers :
            (worker[w].pc = "kickoff" /\ worker'[w].pc = "s_cache") =>
                /\ research_logs' =
                       AppendLog(research_logs, worker[w].session_id,
                                 LogEntry("Search Tool", "Searching",
                                          <<"Query: ", worker'[w].query>>))
                /\ UNCHANGED <<clock, research_processes, research_results,
                               environ, tool>>]_vars

\* "A " is answered from the cache with the papers an earlier search found
C7_Witness ==
    \E w \in Workers :
        /\ Returned(w) /\ hist[w].hit
        /\ worker[w].query = <<"A", " ">>
        /\ hist[w].arxivCalls[<<"a">>] = 1
        /\ worker[w].ret = hist[w].first[<<"a">>].bundle
        /\ Len(worker[w].ret.arxiv) = MinArxivResults

\* C8: query_count goes up by exactly one on each non-cached call and never
\* goes down; at most max_queries_per_session calls reach an outbound search;
\* the 21st and every later non-cached call returns the sentinel and makes no
\* outbound call.
C8_QueryBudget ==
    /\ [](\A w \in Workers : HasTool(w) =>
            /\ tool[w].query_count =
                   hist[w].misses - (IF worker[w].pc = "s_wait" THEN 1 ELSE 0)
            /\ hist[w].outbound <= max_queries_per_session
            /\ worker[w].pc \in {"s_arxiv", "s_web", "s_store"} =>
                   hist[w].misses <= max_queries_per_session
            /\ (Returned(w) /\ ~hist[w].hit
                    /\ hist[w].misses > max_queries_per_session) =>
                   /\ worker[w].ret = LimitSentinel
                   /\ hist[w].arxivOut = NoOutcome
                   /\ hist[w].webOut = NoOutcome)
    /\ [][\A w \in Workers : (HasTool(w) /\ tool'[w].session_id # Null) =>
            /\ tool'[w].query_count >= tool[w].query_count
            /\ tool'[w].query_count <= tool[w].query_count + 1
            /\ hist'[w].outbound # hist[w].outbound =>
                   tool[w].query_count <= max_queries_per_session]_vars

\* the 22nd non-cached call has returned the sentinel, 20 went outbound
C8_Witness ==
    \E w \in Workers :
        /\ Returned(w) /\ ~hist[w].hit
        /\ hist[w].misses = max_queries_per_session + 2
        /\ tool[w].query_count = max_queries_per_session + 2
        /\ hist[w].outbound = max_queries_per_session
        /\ worker[w].ret = LimitSentinel

\* C9: a search begins its outbound calls no earlier than MinInterval seconds
\* after the last_query_time the search before it recorded; a thread that
\* arrives earlier sleeps for the remainder.
C9_MinimumSpacing ==
    \A w \in Workers : HasTool(w) =>
        /\ worker[w].pc \in {"s_arxiv", "s_web"} =>
               clock >= tool[w].last_query_time + MinInterval * TicksPerSecond
        /\ (worker[w].pc = "s_wait" /\ worker[w].wake > clock) =>
               worker[w].wake =
                   tool[w].last_query_time + MinInterval * TicksPerSecond

\* the second outbound search of a tool begins, after its thread has slept,
\* exactly MinInterval seconds after the first ended
C9_Witness ==
    \E w \in Workers :
        /\ worker[w].pc = "s_arxiv"
        /\ tool[w].query_count = 2 /\ hist[w].outbound = 1
        /\ tool[w].last_query_time >= SearchT0
        /\ clock = tool[w].last_query_time + MinInterval * TicksPerSecond

\* C10: func returns whatever the providers do; when the arXiv search raises
\* the academic list is empty and the web search is still attempted if a
\* SerpAPI key is configured; when the web search raises the web list is
\* empty and the academic results obtained are returned.
C10_IndependentDegradation ==
    \A w \in Workers : HasTool(w) =>
        /\ worker[w].pc \in SearchPcs \cup {"kickoff"}
        /\ (Returned(w) /\ hist[w].arxivOut # NoOutcome) =>
               LET query == worker[w].query
                   ret == worker[w].ret
                   arxiv == hist[w].arxivOut
                   web == hist[w].webOut
               IN /\ ret.arxiv = IF arxiv.raises THEN <<>>
                                 ELSE ArxivList(query, arxiv.n)
                  /\ (arxiv.raises /\ Truthy(worker[w].serpapi_key)) =>
                         web # NoOutcome
                  /\ ret.web = IF web = NoOutcome \/ web.raises THEN <<>>
                               ELSE WebList(query, web.n)

\* the arXiv search raised and the web search still brought a page
C10_Witness ==
    \E w \in Workers :
        /\ Returned(w)
        /\ hist[w].arxivOut = Raises /\ hist[w].webOut = Yields(1)
        /\ worker[w].ret = [arxiv |-> <<>>,
                            web |-> WebList(worker[w].query, 1)]

\* C11: in a non-cached search within budget the web search is attempted
\* exactly when fewer than MinArxivResults papers were obtained and a
\* non-empty SerpAPI key is configured; otherwise no web call is made and the
\* web list of the returned bundle is empty.
C11_WebFallback ==
    \A w \in Workers :
        (HasTool(w) /\ Returned(w) /\ hist[w].arxivOut # NoOutcome) =>
            LET attempted == hist[w].webOut # NoOutcome
            IN /\ attempted <=>
                      /\ Len(worker[w].ret.arxiv) < MinArxivResults
                      /\ Truthy(worker[w].serpapi_key)
               /\ ~attempted => worker[w].ret.web = <<>>

\* one paper was found and no SerpAPI key is configured: no web call
C11_Witness ==
    \E w \in Workers :
        /\ HasTool(w) /\ Returned(w)
        /\ ~Truthy(worker[w].serpapi_key)
        /\ hist[w].arxivOut = Yields(1) /\ hist[w].webOut = NoOutcome
        /\ Len(worker[w].ret.arxiv) = 1 /\ worker[w].ret.web = <<>>

(***************************************************************************)
(* Properties of the sessions' logs and tools.                             *)
(***************************************************************************)
\* the worker takes the step
Acts(w) == worker'[w] # worker[w]

\* new is old with one entry appended at its end
Appended(old, new) ==
    Len(new) = Len(old) + 1 /\ SubSeq(new, 1, Len(old)) = old

\* C12: a session's log grows at its end only, so that a poll returns the
\* entries in the order they were appended, and an entry that the worker of
\* one session appends never gets into the log of another session.
C12_LogOrderIsolation ==
    /\ [][\A session_id \in DOMAIN research_logs :
            research_logs'[session_id] # research_logs[session_id] =>
                \/ research_logs'[session_id] = <<>>
                \/ Appended(research_logs[session_id],
                            research_logs'[session_id])]_vars
    /\ [][\A a \in Workers : \A b \in Workers \ {a} :
            (Acts(a) /\ Has(research_logs, worker[b].session_id)) =>
                ~Appended(research_logs[worker[b].session_id],
                          research_logs'[worker[b].session_id])]_vars

\* old is a prefix of new
IsPrefix(old, new) ==
    Len(old) <= Len(new) /\ SubSeq(new, 1, Len(old)) = old

\* C13: a session's log is append-only: no step removes or edits an entry,
\* so what a poll of a session id returns is a prefix of what every later
\* poll of that id returns.
C13_AppendOnly ==
    [][\A session_id \in DOMAIN research_logs :
          IsPrefix(research_logs[session_id],
                   research_logs'[session_id])]_vars

\* C14: a start request without a goal or without a key is answered 400 and
\* launches no worker, a poll of an id that no start request returned is
\* answered 404, and neither changes a status, a result, a log, a worker or
\* a tool.
C14_RejectedNoState ==
    /\ [](\A w \in Started :
              /\ worker[w].research_goal \notin {None, ""}
              /\ worker[w].openai_api_key \notin {None, ""})
    /\ [](poll.pc \in {"status", "result", "reply"} =>
              poll.session_id \in Accepted)
    /\ [][(\/ starter' # starter
           \/ poll' # poll /\ "notfound" \in {poll.pc, poll'.pc})
          => UNCHANGED <<research_processes, research_results, research_logs,
                         environ, worker, tool>>]_vars

\* while a session runs, a start request is about to be answered 400 and a
\* poll 404
C14_Witness ==
    /\ starter = "reject" /\ poll.pc = "notfound"
    /\ \E session_id \in DOMAIN research_processes :
           research_processes[session_id] = "running"

\* C15: the session ids that accepted start requests return are pairwise
\* different.
C15_UniqueSessionIds ==
    \A a \in Started : \A b \in Started \ {a} :
        worker[a].session_id # worker[b].session_id

\* C16: every result of func, the budget-exceeded one included, carries an
\* academic list and a web list at its top level; the budget-exceeded one
\* carries the error text beside two empty lists.
C16_SentinelShape ==
    \A w \in Workers : (HasTool(w) /\ Returned(w)) =>
        LET ret == worker[w].ret
        IN /\ {"arxiv", "web"} \subseteq DOMAIN ret
           /\ "error" \in DOMAIN ret =>
                  /\ ret.error = "Query limit reached"
                  /\ ret.arxiv = <<>> /\ ret.web = <<>>

\* the keys the cache holds when the run starts
FillerKeys(w) == { Filler(i) : i \in 1..(hist[w].misses) }

\* C17: the cache holds a normalized key exactly when a non-cached search of
\* it completed within budget, and holds the bundle that search returned,
\* empty lists of failed providers included; a budget-exceeded call leaves
\* the cache and last_query_time alone; a non-cached call within budget sets
\* last_query_time.
C17_CacheContents ==
    /\ [](\A w \in Workers : HasTool(w) =>
            /\ DOMAIN tool[w].cache \subseteq Keys \cup FillerKeys(w)
            /\ \A k \in Keys :
                   /\ Has(tool[w].cache, k) <=> hist[w].first[k] # Null
                   /\ Has(tool[w].cache, k) =>
                          tool[w].cache[k] = hist[w].first[k].bundle)
    /\ [][\A w \in Workers : (HasTool(w) /\ Acts(w)) =>
            /\ \A k \in DOMAIN tool[w].cache :
                   Has(tool'[w].cache, k)
                       /\ tool'[w].cache[k] = tool[w].cache[k]
            /\ (worker[w].pc = "s_wait" /\ worker'[w].pc = "kickoff") =>
                   /\ worker'[w].ret = LimitSentinel
                   /\ tool'[w].cache = tool[w].cache
                   /\ tool'[w].last_query_time = tool[w].last_query_time
            /\ (worker[w].pc = "s_store" /\ worker'[w].pc = "kickoff") =>
                   /\ tool'[w].last_query_time = clock
                   /\ DOMAIN tool'[w].cache =
                          DOMAIN tool[w].cache
                              \cup {Normalize(worker[w].query)}
                   /\ tool'[w].cache[Normalize(worker[w].query)] =
                          worker'[w].ret
            /\ tool'[w].cache # tool[w].cache => worker[w].pc = "s_store"
          ]_vars

\* "a" was searched within budget with both providers failing and its empty
\* bundle is cached; "b" was then refused and is not cached
C17_Witness ==
    \E w \in Workers :
        /\ HasTool(w) /\ Returned(w)
        /\ worker[w].query = <<"b">> /\ worker[w].ret = LimitSentinel
        /\ Has(tool[w].cache, <<"a">>) /\ ~Has(tool[w].cache, <<"b">>)
        /\ tool[w].cache[<<"a">>] = EmptyBundle
        /\ hist[w].webCalls[<<"a">>] = 1

\* crew.kickoff() raised in the worker's run, and the worker is handling it
RuntimeFailed(w) == worker[w].exc = ErrorMsg(<<"runtime failed">>)

\* C18: when the status of a session becomes error because crew.kickoff()
\* raised, the session's log already holds a 'Process Error' entry.
C18_ProcessErrorLogged ==
    [][\A w \in Workers :
          (worker[w].pc = "set_error" /\ worker'[w].pc = "done"
               /\ RuntimeFailed(w)) =>
              "Process Error" \in
                  { e.action : e \in
                        { research_logs[worker[w].session_id][i] :
                              i \in 1..Len(research_logs[worker[w].session_id]) } }
      ]_vars

\* C19: a step of one session's worker, its searches included, leaves the
\* tool of every other session as it is; a search hits the cache only on an
\* entry its own tool stored, the budget counts only the tool's own calls and
\* last_query_time is set only by the tool's own searches.
C19_ToolPrivate ==
    /\ [][\A a \in Workers : \A b \in Workers \ {a} :
            Acts(a) => tool'[b] = tool[b]]_vars
    /\ [](\A b \in Workers : HasTool(b) =>
            /\ hist[b].hit => Repeated(b)
            /\ \A k \in DOMAIN tool[b].cache : hist[b].first[k] # Null
            /\ tool[b].query_count =
                   hist[b].misses - (IF worker[b].pc = "s_wait" THEN 1 ELSE 0)
            /\ tool[b].last_query_time # 0 => hist[b].outbound >= 1)

\* two sessions have searched the same text at the same time, and each went
\* to the providers itself and cached its own bundle
C19_Witness ==
    \A w \in Workers :
        /\ HasTool(w) /\ Returned(w) /\ ~hist[w].hit
        /\ worker[w].query = <<"a">>
        /\ tool[w].query_count = 1 /\ hist[w].arxivCalls[<<"a">>] = 1
        /\ Has(tool[w].cache, <<"a">>)

\* the log holds an entry with that action
Logged(log, action) == \E i \in 1..Len(log) : log[i].action = action

\* in the log 'Process Started' precedes every entry of a search or of the
\* end of the run, and the run has not ended both ways
WellOrdered(log) ==
    /\ \A i \in 1..Len(log) :
           log[i].action \in {"Searching", "Process Completed",
                              "Process Error"} =>
               \E j \in 1..(i - 1) : log[j].action = "Process Started"
    /\ ~(Logged(log, "Process Completed") /\ Logged(log, "Process Error"))

\* C20: in every session's log 'Process Started' precedes every 'Searching',
\* 'Process Completed' and 'Process Error' entry and the last two never
\* occur together; a poll that reports completed returns a log that holds
\* 'Process Completed'; the status of a session whose log holds 'Process
\* Error' never becomes completed.
C20_LogStatusOrder ==
    /\ [](\A session_id \in DOMAIN research_logs :
              WellOrdered(research_logs[session_id]))
    /\ []((poll.pc = "reply" /\ poll.process_status = "completed") =>
              Logged(Response(poll, research_logs).logs, "Process Completed"))
    /\ [][\A session_id \in DOMAIN research_logs :
            (/\ Logged(research_logs[session_id], "Process Error")
             /\ StatusOf(research_processes, session_id) # "completed") =>
                StatusOf(research_processes', session_id) # "completed"]_vars

=============================================================================
